---- MODULE Spec2Model ----
(***************************************************************************)
(* The login form of src/src/components/form/login-form.stories.tsx        *)
(* (LoginForm, lines 570-634) as a state machine.                          *)
(*                                                                         *)
(* LoginForm is a react-hook-form session: useForm with the zod resolver   *)
(* of loginFormSchema, defaultValues {email: '', password: ''} and         *)
(* mode 'onChange'; the <form> submits through form.handleSubmit(onSubmit).*)
(* The state of the session is the form state useForm keeps; the           *)
(* operations are the three event handlers the component wires:            *)
(*   field.onChange  (a value change of an input;  setFieldValue)          *)
(*   field.onBlur    (an input losing the focus;   blurField)              *)
(*   handleSubmit    (the form's submit event;     attemptSubmit)          *)
(* and the settlement of a promise returned by the injected onSubmit.      *)
(*                                                                         *)
(* A handler runs to the point where it waits for the injected callback:   *)
(* the resolver's promise chain is made of microtasks only, which the      *)
(* event loop drains before it dispatches the next UI event, so no other   *)
(* handler runs in between.  The one suspension point is the promise of    *)
(* the injected callback.                                                  *)
(*                                                                         *)
(* <FormMessage /> renders the entry of formState.errors of its field; a   *)
(* statement that a field displays an error is made on that entry.         *)
(***************************************************************************)
EXTENDS Naturals, Sequences, FiniteSets, TLC

VARIABLES
    values,             \* _formValues: field name -> current raw input
    touchedFields,      \* formState.touchedFields: field name -> BOOLEAN
    errors,             \* formState.errors: field name -> message or NoError
    isSubmitting,       \* formState.isSubmitting
    isSubmitted,        \* formState.isSubmitted
    isSubmitSuccessful, \* formState.isSubmitSuccessful
    submitCount,        \* formState.submitCount
    calls,              \* onSubmit.mock.calls: first argument of each invocation
    pending,            \* indices of calls whose returned promise has not settled
    changed,            \* history: the fields that received a value change
    lastEvent,          \* history: the handler that ran last and its outcome
    probe,              \* a value set handed to the resolver and its result
    handler,            \* the msw handler in use for GET /api/users
    requestCount,       \* the counter in the closure of conditionalResponse
    pc,                 \* UserList: how far fetchUsers of a component has run
    response,           \* UserList: what the handler answered to its request
    users,              \* UserList: useState users
    loading,            \* UserList: useState loading
    error,              \* UserList: useState error
    served,             \* history: the responses conditionalResponse returned
    fetches,            \* history: calls of fetch('/api/users') per component
    other               \* the form state of a second LoginForm on the page

vars == <<values, touchedFields, errors, isSubmitting, isSubmitted,
          isSubmitSuccessful, submitCount, calls, pending, changed, lastEvent,
          probe, handler, requestCount, pc, response, users, loading, error,
          served, fetches, other>>

\* the variables that are no part of the form session
outsideForm == <<probe, handler, requestCount, pc, response, users, loading,
                 error, served, fetches, other>>

\* the variables of the mock worker and of the UserList components
userListVars == <<handler, requestCount, pc, response, users, loading, error,
                  served, fetches>>

\* the variables of the form session
formVars == <<values, touchedFields, errors, isSubmitting, isSubmitted,
              isSubmitSuccessful, submitCount, calls, pending, changed,
              lastEvent>>

-----------------------------------------------------------------------------
(* Bounds of the model *)

\* handleSubmit runs (finished or waiting for the callback) in one session
MaxSubmits == 2

\* UserList components mounted on one page
MaxMounts == 2

\* handleSubmit runs per form when two forms are on the page
MaxTwoSubmits == 1

-----------------------------------------------------------------------------
(* Strings are sequences of one-character strings. *)

Lower == {"a", "b", "c", "d", "e", "f", "g", "h", "i", "j", "k", "l", "m",
          "n", "o", "p", "q", "r", "s", "t", "u", "v", "w", "x", "y", "z"}
Upper == {"A", "B", "C", "D", "E", "F", "G", "H", "I", "J", "K", "L", "M",
          "N", "O", "P", "Q", "R", "S", "T", "U", "V", "W", "X", "Y", "Z"}
Digit == {"0", "1", "2", "3", "4", "5", "6", "7", "8", "9"}
Letter == Lower \cup Upper
AlNum == Letter \cup Digit

\* the inputs the handlers are driven with
EmptyString == << >>
InvalidEmail == <<"i", "n", "v", "a", "l", "i", "d">>
NoTldEmail == <<"a", "@", "b">>
UserEmail == <<"u", "s", "e", "r", "@", "e", "x", "a", "m", "p", "l", "e", ".",
               "c", "o", "m">>
Short7 == <<"p", "a", "s", "s", "w", "o", "r">>
Exact8 == <<"p", "a", "s", "s", "w", "o", "r", "d">>
Password123 == <<"p", "a", "s", "s", "w", "o", "r", "d", "1", "2", "3">>

Fields == {"email", "password"}

Inputs(name) ==
    IF name = "email"
    THEN {EmptyString, InvalidEmail, NoTldEmail, UserEmail}
    ELSE {EmptyString, Short7, Exact8, Password123}

-----------------------------------------------------------------------------
(* loginFormSchema *)

\* no entry for the field in formState.errors
NoError == "none"

\* the two messages of the schema, in English
EmailMessage == "enter a valid email address"
PasswordMessage == "password must be at least 8 characters"

\* the labels of a domain up to and including the dot before the top level
\* domain: ([A-Za-z0-9][A-Za-z0-9\-]*\.)+
LabelsOk(p) ==
    /\ Len(p) >= 2
    /\ p[1] \in AlNum
    /\ p[Len(p)] = "."
    /\ \A i \in 1..Len(p) : p[i] \in AlNum \cup {"-", "."}
    /\ \A i \in 1..(Len(p) - 1) : p[i] = "." => p[i + 1] \in AlNum

\* ([A-Za-z0-9][A-Za-z0-9\-]*\.)+[A-Za-z]{2,}
DomainOk(d) ==
    \E t \in 1..Len(d) :
        /\ d[t] = "."
        /\ Len(d) - t >= 2
        /\ \A i \in (t + 1)..Len(d) : d[i] \in Letter
        /\ LabelsOk(SubSeq(d, 1, t))

\* z.email(): the string matches
\* ^(?!\.)(?!.*\.\.)([A-Za-z0-9_'+\-\.]*)[A-Za-z0-9_+-]@([A-Za-z0-9][A-Za-z0-9\-]*\.)+[A-Za-z]{2,}$
isEmail(s) ==
    \E k \in 2..Len(s) :
        /\ s[k] = "@"
        /\ s[1] # "."
        /\ \A i \in 1..(Len(s) - 1) : ~(s[i] = "." /\ s[i + 1] = ".")
        /\ \A i \in 1..(k - 2) : s[i] \in AlNum \cup {"_", "'", "+", "-", "."}
        /\ s[k - 1] \in AlNum \cup {"_", "+", "-"}
        /\ DomainOk(SubSeq(s, k + 1, Len(s)))

\* z.string().min(8, ...)
MinLength == 8

\* a minimum that lets the empty string pass, as for an optional field
minLengthOrEmpty(s) == s = << >> \/ Len(s) >= MinLength

\* a minimum that a string of exactly MinLength characters fails
minLengthExclusive(s) == Len(s) > MinLength

minLength(s) == Len(s) >= MinLength

\* the rule of a field of the schema
check(name, v) == IF name = "email" THEN isEmail(v) ELSE minLength(v)

\* the message of the rule of a field
message(name) == IF name = "email" THEN EmailMessage ELSE PasswordMessage

\* a value that is no string: the key is absent from the value set
Undefined == <<"undefined">>

isString(v) == v # Undefined

\* the message of z.string() for a value that is no string
TypeMessage == "Invalid input: expected string, received undefined"

\* the rules of a field in the order the schema declares them: z.email is
\* a string with the email format, z.string().min(8) a string with a minimum
rulesFormatFirst(name) ==
    IF name = "email" THEN <<"email", "string">> ELSE <<"min", "string">>

rules(name) ==
    IF name = "email" THEN <<"string", "email">> ELSE <<"string", "min">>

\* whether a value passes one rule
passes(rule, v) ==
    IF rule = "string" THEN isString(v)
    ELSE IF rule = "email" THEN isString(v) /\ isEmail(v)
    ELSE isString(v) /\ minLength(v)

\* the message of a rule: the message given to z.email is the one of the
\* whole email schema, the message given to min(8) the one of that check
ruleMessage(name, rule) ==
    IF name = "email" THEN EmailMessage
    ELSE IF rule = "string" THEN TypeMessage
    ELSE PasswordMessage

\* a failing type rule ends the evaluation of the field, a failing check
\* does not
aborts(rule) == rule = "string"

\* the issues zod reports for one field, in the order of its rules
RECURSIVE fieldIssues(_, _, _)
fieldIssues(name, rs, v) ==
    IF rs = << >> THEN << >>
    ELSE IF passes(Head(rs), v) THEN fieldIssues(name, Tail(rs), v)
    ELSE IF aborts(Head(rs)) THEN <<ruleMessage(name, Head(rs))>>
    ELSE <<ruleMessage(name, Head(rs))>> \o fieldIssues(name, Tail(rs), v)

\* the first issue of a field of the schema, or NoError: the resolver keeps
\* the first issue of a path
fieldIssue(name, v) ==
    LET found == fieldIssues(name, rules(name), v)
    IN  IF found = << >> THEN NoError ELSE Head(found)

NoErrors == [f \in Fields |-> NoError]

\* a resolver that hands on the email and loses the password
zodResolverDropsPassword(vs) ==
    LET issues == [f \in Fields |-> fieldIssue(f, vs[f])]
    IN  IF issues = NoErrors
        THEN [values |-> [email |-> vs["email"], password |-> EmptyString],
              errors |-> NoErrors]
        ELSE [values |-> << >>, errors |-> issues]

\* a resolver that stops at the first failing field of the schema
zodResolverFirstFieldOnly(vs) ==
    LET issues == [f \in Fields |-> fieldIssue(f, vs[f])]
    IN  IF issues = NoErrors
        THEN [values |-> [email |-> vs["email"], password |-> vs["password"]],
              errors |-> NoErrors]
        ELSE [values |-> << >>,
              errors |-> IF issues["email"] # NoError
                         THEN [issues EXCEPT !["password"] = NoError]
                         ELSE issues]

\* zodResolver(loginFormSchema): the parsed values and no errors, or no
\* values and the first message of every failing field
zodResolver(vs) ==
    LET issues == [f \in Fields |-> fieldIssue(f, vs[f])]
    IN  IF issues = NoErrors
        THEN [values |-> [email |-> vs["email"], password |-> vs["password"]],
              errors |-> NoErrors]
        ELSE [values |-> << >>, errors |-> issues]

-----------------------------------------------------------------------------
(* The mock handlers of GET /api/users and the UserList component.  A user  *)
(* record is written as its id; a message as an ASCII string.               *)

mockUsers == <<1, 2>>

mswMockUsers == <<3, 4, 5>>

Components == 1..MaxMounts

\* the handlers a story can put in use for GET /api/users
HandlerNames == {"handlers", "networkError", "serverError", "notFound",
                 "serviceUnavailable", "emptyResponse", "delayedResponse",
                 "customDelayedResponse", "mswData", "conditionalResponse",
                 "infiniteDelay", "customResponse"}

\* no handler has answered yet
NoResponse == [type |-> "none", status |-> 0, hasJson |-> FALSE, data |-> << >>]

\* the handler awaits delay('infinite'): it never answers
NeverResponse ==
    [type |-> "never", status |-> 0, hasJson |-> FALSE, data |-> << >>]

\* HttpResponse.error()
ErrorResponse ==
    [type |-> "error", status |-> 0, hasJson |-> FALSE, data |-> << >>]

\* new HttpResponse(null, {status})
EmptyResponse(status) ==
    [type |-> "basic", status |-> status, hasJson |-> FALSE, data |-> << >>]

\* HttpResponse.json(data)
JsonResponse(data) ==
    [type |-> "basic", status |-> 200, hasJson |-> TRUE, data |-> data]

\* what the handler h returns; n is the value of requestCount after the
\* increment that conditionalResponse makes on entry
resolve(h, n) ==
    CASE h = "handlers" -> JsonResponse(mockUsers)
      [] h = "networkError" -> ErrorResponse
      [] h = "serverError" -> EmptyResponse(500)
      [] h = "notFound" -> EmptyResponse(404)
      [] h = "serviceUnavailable" -> EmptyResponse(503)
      [] h = "emptyResponse" -> JsonResponse(<< >>)
      [] h = "delayedResponse" -> JsonResponse(mswMockUsers)
      [] h = "customDelayedResponse" -> JsonResponse(mswMockUsers)
      [] h = "mswData" -> JsonResponse(mswMockUsers)
      [] h = "conditionalResponse" ->
            IF n = 1 THEN EmptyResponse(503) ELSE JsonResponse(mswMockUsers)
      [] h = "infiniteDelay" -> NeverResponse
      \* createCustomResponseHandler(undefined): JSON.stringify(undefined)
      \* is no text, the response has status 200 and no body
      [] h = "customResponse" -> EmptyResponse(200)

\* a check of response.ok that every status passes
responseOkAlways(status) == TRUE

\* Response.ok
responseOk(status) == status >= 200 /\ status <= 299

\* useState<string | null>(null)
Null == "null"

\* new Error('Failed to fetch users')
FailedMessage == "Failed to fetch users"

\* message of the TypeError fetch rejects with on a network error
NetworkErrorMessage == "Failed to fetch"

\* message of the SyntaxError response.json() rejects with on a body that
\* is no JSON text
ParseErrorMessage == "Unexpected end of JSON input"

\* [...Array(3)]
SkeletonCount == 3

\* what a mounted UserList returns from its render
render(c) ==
    IF loading[c]
    THEN [kind |-> "skeletons", count |-> SkeletonCount, text |-> Null,
          cards |-> << >>]
    ELSE IF error[c] # Null
    THEN [kind |-> "error", count |-> 0, text |-> error[c], cards |-> << >>]
    ELSE [kind |-> "cards", count |-> 0, text |-> Null, cards |-> users[c]]

-----------------------------------------------------------------------------
(* useForm *)

defaultValues == [email |-> EmptyString, password |-> EmptyString]

\* validation on leaving a field instead of on every change
modeOnBlur == "onBlur"

mode == "onChange"

\* not given to useForm: the library's default
reValidateMode == "onChange"

\* whether a change or blur event of a field skips its validation
skipValidation(isBlurEvent, isTouched, submitted, reValidate, validate) ==
    IF validate = "all" THEN FALSE
    ELSE IF ~submitted /\ validate = "onTouched" THEN ~(isTouched \/ isBlurEvent)
    ELSE IF (IF submitted THEN reValidate = "onBlur" ELSE validate = "onBlur")
         THEN ~isBlurEvent
    ELSE IF (IF submitted THEN reValidate = "onChange" ELSE validate = "onChange")
         THEN isBlurEvent
    ELSE TRUE

Event(op, name, outcome) == [op |-> op, name |-> name, outcome |-> outcome]

Init ==
    /\ values = defaultValues
    /\ touchedFields = [f \in Fields |-> FALSE]
    /\ errors = NoErrors
    /\ isSubmitting = FALSE
    /\ isSubmitted = FALSE
    /\ isSubmitSuccessful = FALSE
    /\ submitCount = 0
    /\ calls = << >>
    /\ pending = {}
    /\ changed = [f \in Fields |-> FALSE]
    /\ lastEvent = Event("mount", "-", "-")
    /\ probe = [values |-> defaultValues, result |-> zodResolver(defaultValues)]
    /\ handler = "handlers"
    /\ requestCount = 0
    /\ pc = [c \in Components |-> "unmounted"]
    /\ response = [c \in Components |-> NoResponse]
    /\ users = [c \in Components |-> << >>]
    /\ loading = [c \in Components |-> TRUE]
    /\ error = [c \in Components |-> Null]
    /\ served = << >>
    /\ fetches = [c \in Components |-> 0]
    /\ other = [values |-> defaultValues,
                touchedFields |-> [f \in Fields |-> FALSE],
                errors |-> NoErrors,
                isSubmitting |-> FALSE,
                isSubmitted |-> FALSE,
                isSubmitSuccessful |-> FALSE,
                submitCount |-> 0,
                calls |-> << >>,
                pending |-> {},
                lastEvent |-> Event("mount", "-", "-"),
                concurrent |-> FALSE]

\* the error of one field after its change or blur event
validatedError(name, vs, isBlurEvent) ==
    IF skipValidation(isBlurEvent, touchedFields[name], isSubmitted,
                      reValidateMode, mode)
    THEN errors[name]
    ELSE zodResolver(vs).errors[name]

\* an input that is locked while a submission is in flight
onChangeLocked(name, v) ==
    /\ v # values[name]
    /\ values' = IF isSubmitting THEN values ELSE [values EXCEPT ![name] = v]
    /\ errors' = [errors EXCEPT ![name] = validatedError(name, values', FALSE)]
    /\ changed' = [changed EXCEPT ![name] = TRUE]
    /\ lastEvent' = Event("onChange", name,
                          IF errors'[name] = errors[name] THEN "kept"
                          ELSE IF errors'[name] = NoError THEN "cleared"
                          ELSE "raised")
    /\ UNCHANGED <<touchedFields, isSubmitting, isSubmitted, isSubmitSuccessful,
                   submitCount, calls, pending>>
    /\ UNCHANGED outsideForm

\* a change that marks its field touched
onChangeTouches(name, v) ==
    /\ v # values[name]
    /\ values' = [values EXCEPT ![name] = v]
    /\ errors' = [errors EXCEPT ![name] = validatedError(name, values', FALSE)]
    /\ touchedFields' = [touchedFields EXCEPT ![name] = TRUE]
    /\ changed' = [changed EXCEPT ![name] = TRUE]
    /\ lastEvent' = Event("onChange", name,
                          IF errors'[name] = errors[name] THEN "kept"
                          ELSE IF errors'[name] = NoError THEN "cleared"
                          ELSE "raised")
    /\ UNCHANGED <<isSubmitting, isSubmitted, isSubmitSuccessful,
                   submitCount, calls, pending>>
    /\ UNCHANGED outsideForm

\* a change that writes the errors of all fields
onChangeValidatesAll(name, v) ==
    /\ v # values[name]
    /\ values' = [values EXCEPT ![name] = v]
    /\ errors' = zodResolver(values').errors
    /\ changed' = [changed EXCEPT ![name] = TRUE]
    /\ lastEvent' = Event("onChange", name,
                          IF errors'[name] = errors[name] THEN "kept"
                          ELSE IF errors'[name] = NoError THEN "cleared"
                          ELSE "raised")
    /\ UNCHANGED <<touchedFields, isSubmitting, isSubmitted, isSubmitSuccessful,
                   submitCount, calls, pending>>
    /\ UNCHANGED outsideForm

\* field.onChange of the input of a field
onChange(name, v) ==
    /\ v # values[name]
    /\ values' = [values EXCEPT ![name] = v]
    /\ errors' = [errors EXCEPT ![name] = validatedError(name, values', FALSE)]
    /\ changed' = [changed EXCEPT ![name] = TRUE]
    /\ lastEvent' = Event("onChange", name,
                          IF errors'[name] = errors[name] THEN "kept"
                          ELSE IF errors'[name] = NoError THEN "cleared"
                          ELSE "raised")
    /\ UNCHANGED <<touchedFields, isSubmitting, isSubmitted, isSubmitSuccessful,
                   submitCount, calls, pending>>
    /\ UNCHANGED outsideForm

\* field.onBlur of the input of a field
onBlur(name) ==
    /\ touchedFields' = [touchedFields EXCEPT ![name] = TRUE]
    /\ errors' = [errors EXCEPT ![name] = validatedError(name, values, TRUE)]
    /\ lastEvent' = Event("onBlur", name, "-")
    /\ UNCHANGED <<values, isSubmitting, isSubmitted, isSubmitSuccessful,
                   submitCount, calls, pending, changed>>
    /\ UNCHANGED outsideForm

\* <Button type='submit'>: always rendered, and given no disabled attribute
submitButton == [present |-> TRUE, disabled |-> FALSE]

-----------------------------------------------------------------------------
(* form.handleSubmit(onSubmit) *)

\* what the injected onSubmit does when it is called: it returns, it throws,
\* or it returns a promise that settles later
CallbackBehaviours == {"returned", "threw", "pending"}

\* a handler that invokes the callback whatever the resolver reported
shouldInvokeAlways(errs) == TRUE

\* the callback is invoked only when the resolver reported no error
shouldInvoke(errs) == errs = NoErrors

\* an end of handleSubmit that releases the flag only after a success
finishOnSuccessOnly(ok) ==
    /\ isSubmitted' = TRUE
    /\ isSubmitting' = (isSubmitting /\ ~ok)
    /\ isSubmitSuccessful' = (errors' = NoErrors /\ ok)
    /\ submitCount' = submitCount + 1

\* the end of handleSubmit, on every path
finish(ok) ==
    /\ isSubmitted' = TRUE
    /\ isSubmitting' = FALSE
    /\ isSubmitSuccessful' = (errors' = NoErrors /\ ok)
    /\ submitCount' = submitCount + 1

\* the submit event of the form, up to the promise of the callback
handleSubmit ==
    /\ submitCount + Cardinality(pending) < MaxSubmits
    /\ LET result == zodResolver(values)
       IN  /\ errors' = result.errors
           /\ IF shouldInvoke(result.errors)
              THEN \E b \in CallbackBehaviours :
                      /\ calls' = Append(calls, result.values)
                      /\ lastEvent' = Event("handleSubmit", "-", b)
                      /\ IF b = "pending"
                         THEN /\ pending' = pending \cup {Len(calls) + 1}
                              /\ isSubmitting' = TRUE
                              /\ UNCHANGED <<isSubmitted, isSubmitSuccessful,
                                             submitCount>>
                         ELSE /\ pending' = pending
                              /\ finish(b = "returned")
              ELSE /\ finish(TRUE)
                   /\ lastEvent' = Event("handleSubmit", "-", "invalid")
                   /\ UNCHANGED <<calls, pending>>
    /\ UNCHANGED <<values, touchedFields, changed>>
    /\ UNCHANGED outsideForm

\* a settlement that writes the failure of the callback into a field error
settleSetsFieldError(i, outcome) ==
    /\ i \in pending
    /\ pending' = pending \ {i}
    /\ errors' = IF outcome = "rejected"
                 THEN [errors EXCEPT !["email"] = EmailMessage]
                 ELSE errors
    /\ isSubmitted' = TRUE
    /\ isSubmitting' = FALSE
    /\ isSubmitSuccessful' = (errors' = NoErrors /\ outcome = "resolved")
    /\ submitCount' = submitCount + 1
    /\ lastEvent' = Event("settle", "-", outcome)
    /\ UNCHANGED <<values, touchedFields, calls, changed>>
    /\ UNCHANGED outsideForm

\* the promise of the i-th call settles and handleSubmit runs to its end
settle(i, outcome) ==
    /\ i \in pending
    /\ pending' = pending \ {i}
    /\ errors' = errors
    /\ finish(outcome = "resolved")
    /\ lastEvent' = Event("settle", "-", outcome)
    /\ UNCHANGED <<values, touchedFields, calls, changed>>
    /\ UNCHANGED outsideForm

Next ==
    \/ \E name \in Fields : \E v \in Inputs(name) : onChange(name, v)
    \/ \E name \in Fields : onBlur(name)
    \/ handleSubmit
    \/ \E i \in 1..MaxSubmits : \E outcome \in {"resolved", "rejected"} :
          settle(i, outcome)

Spec == Init /\ [][Next]_vars

-----------------------------------------------------------------------------
(* The resolver as a function of any value set *)

DotFirstEmail == <<".", "a", "@", "b", ".", "c", "o">>
DoubleDotEmail == <<"a", ".", ".", "b", "@", "c", ".", "d", "e">>
HyphenDomainEmail == <<"a", "@", "-", "b", ".", "c", "o">>
ShortTldEmail == <<"a", "@", "b", ".", "c">>
DigitTldEmail == <<"a", "@", "b", ".", "c", "0">>
QuoteEmail == <<"o", "'", "k", "@", "b", "-", ".", "x", "1", ".", "C", "o">>

\* the values the resolver is applied to: strings, and no string at all
EvalInputs(name) ==
    IF name = "email"
    THEN Inputs(name) \cup {Undefined, DotFirstEmail, DoubleDotEmail,
                            HyphenDomainEmail, ShortTldEmail, DigitTldEmail,
                            QuoteEmail}
    ELSE {SubSeq(Password123, 1, n) : n \in 0..Len(Password123)}
         \cup {Undefined}

EvalSets == {[email |-> e, password |-> p] :
                e \in EvalInputs("email"), p \in EvalInputs("password")}

\* one run of the resolver on a value set
evaluate(vs) ==
    /\ vs # probe.values
    /\ probe' = [values |-> vs, result |-> zodResolver(vs)]
    /\ UNCHANGED <<formVars, userListVars, other>>

EvalNext == \E vs \in EvalSets : evaluate(vs)

EvalSpec == Init /\ [][EvalNext]_vars

-----------------------------------------------------------------------------
(* The UserList components and the mock worker *)

\* a story puts its handler in use (parameters.msw.handlers)
useHandlers(h) ==
    /\ h # handler
    /\ handler' = h
    /\ UNCHANGED <<requestCount, pc, response, users, loading, error, served,
                   fetches>>
    /\ UNCHANGED <<formVars, probe, other>>

\* first render of a component and its effect: fetchUsers runs up to the
\* await of fetch('/api/users')
mount(c) ==
    /\ pc[c] = "unmounted"
    /\ users' = [users EXCEPT ![c] = << >>]
    /\ loading' = [loading EXCEPT ![c] = TRUE]
    /\ error' = [error EXCEPT ![c] = Null]
    /\ pc' = [pc EXCEPT ![c] = "requested"]
    /\ fetches' = [fetches EXCEPT ![c] = fetches[c] + 1]
    /\ UNCHANGED <<handler, requestCount, response, served>>
    /\ UNCHANGED <<formVars, probe, other>>

\* a handler whose counter starts anew with every request
respondFreshCount(c) ==
    /\ pc[c] = "requested"
    /\ requestCount' = IF handler = "conditionalResponse"
                       THEN 1 ELSE requestCount
    /\ response' = [response EXCEPT ![c] = resolve(handler, requestCount')]
    /\ served' = IF handler = "conditionalResponse"
                 THEN Append(served, response'[c]) ELSE served
    /\ pc' = [pc EXCEPT ![c] = "awaiting"]
    /\ UNCHANGED <<handler, users, loading, error, fetches>>
    /\ UNCHANGED <<formVars, probe, other>>

\* the worker hands the request of a component to the handler in use
respond(c) ==
    /\ pc[c] = "requested"
    /\ requestCount' = IF handler = "conditionalResponse"
                       THEN requestCount + 1 ELSE requestCount
    /\ response' = [response EXCEPT ![c] = resolve(handler, requestCount')]
    /\ served' = IF handler = "conditionalResponse"
                 THEN Append(served, response'[c]) ELSE served
    /\ pc' = [pc EXCEPT ![c] = "awaiting"]
    /\ UNCHANGED <<handler, users, loading, error, fetches>>
    /\ UNCHANGED <<formVars, probe, other>>

\* a fetchUsers that sends the request again after a response that is not ok
fetchSettlesRetries(c) ==
    /\ pc[c] = "awaiting"
    /\ response[c].type # "never"
    /\ IF response[c].type = "error"
       THEN /\ error' = [error EXCEPT ![c] = NetworkErrorMessage]
            /\ loading' = [loading EXCEPT ![c] = FALSE]
            /\ pc' = [pc EXCEPT ![c] = "done"]
            /\ UNCHANGED fetches
       ELSE IF ~responseOk(response[c].status)
       THEN /\ pc' = [pc EXCEPT ![c] = "requested"]
            /\ fetches' = [fetches EXCEPT ![c] = fetches[c] + 1]
            /\ UNCHANGED <<error, loading>>
       ELSE /\ pc' = [pc EXCEPT ![c] = "parsing"]
            /\ UNCHANGED <<error, loading, fetches>>
    /\ UNCHANGED <<handler, requestCount, response, users, served>>
    /\ UNCHANGED <<formVars, probe, other>>

\* the promise of fetch settles: a rejection or a response that is not ok
\* runs catch and finally, an ok response goes on to response.json()
fetchSettles(c) ==
    /\ pc[c] = "awaiting"
    /\ response[c].type # "never"
    /\ IF response[c].type = "error"
       THEN /\ error' = [error EXCEPT ![c] = NetworkErrorMessage]
            /\ loading' = [loading EXCEPT ![c] = FALSE]
            /\ pc' = [pc EXCEPT ![c] = "done"]
       ELSE IF ~responseOk(response[c].status)
       THEN /\ error' = [error EXCEPT ![c] = FailedMessage]
            /\ loading' = [loading EXCEPT ![c] = FALSE]
            /\ pc' = [pc EXCEPT ![c] = "done"]
       ELSE /\ pc' = [pc EXCEPT ![c] = "parsing"]
            /\ UNCHANGED <<error, loading>>
    /\ UNCHANGED <<handler, requestCount, response, users, served, fetches>>
    /\ UNCHANGED <<formVars, probe, other>>

\* a fetchUsers without the finally block
jsonSettlesNoFinally(c) ==
    /\ pc[c] = "parsing"
    /\ IF response[c].hasJson
       THEN /\ users' = [users EXCEPT ![c] = response[c].data]
            /\ loading' = [loading EXCEPT ![c] = FALSE]
            /\ UNCHANGED error
       ELSE /\ error' = [error EXCEPT ![c] = ParseErrorMessage]
            /\ UNCHANGED <<users, loading>>
    /\ pc' = [pc EXCEPT ![c] = "done"]
    /\ UNCHANGED <<handler, requestCount, response, served, fetches>>
    /\ UNCHANGED <<formVars, probe, other>>

\* the promise of response.json() settles: setUsers(data) or catch, then
\* finally
jsonSettles(c) ==
    /\ pc[c] = "parsing"
    /\ IF response[c].hasJson
       THEN /\ users' = [users EXCEPT ![c] = response[c].data]
            /\ UNCHANGED error
       ELSE /\ error' = [error EXCEPT ![c] = ParseErrorMessage]
            /\ UNCHANGED users
    /\ loading' = [loading EXCEPT ![c] = FALSE]
    /\ pc' = [pc EXCEPT ![c] = "done"]
    /\ UNCHANGED <<handler, requestCount, response, served, fetches>>
    /\ UNCHANGED <<formVars, probe, other>>

UserListNext ==
    \/ \E h \in HandlerNames : useHandlers(h)
    \/ \E c \in Components : mount(c)
    \/ \E c \in Components : respond(c)
    \/ \E c \in Components : fetchSettles(c)
    \/ \E c \in Components : jsonSettles(c)

UserListSpec == Init /\ [][UserListNext]_vars

-----------------------------------------------------------------------------
(* Two LoginForm components on one page: each call of useForm creates its   *)
(* own form state; the second one is the record other, and its handlers are *)
(* the handlers above written on that record.                               *)

\* the values typed into the forms when two of them are on the page
TwoInputs(name) == IF name = "email" THEN {UserEmail} ELSE {Password123}

\* the error of one field of the second form after its change or blur event
otherValidatedError(name, vs, isBlurEvent) ==
    IF skipValidation(isBlurEvent, other.touchedFields[name],
                      other.isSubmitted, reValidateMode, mode)
    THEN other.errors[name]
    ELSE zodResolver(vs).errors[name]

\* field.onChange of an input of the second form
otherOnChange(name, v) ==
    /\ v # other.values[name]
    /\ LET vs == [other.values EXCEPT ![name] = v]
       IN  other' = [other EXCEPT
                        !.values = vs,
                        !.errors[name] = otherValidatedError(name, vs, FALSE),
                        !.lastEvent = Event("onChange", name, "-")]
    /\ UNCHANGED <<formVars, probe, userListVars>>

\* field.onBlur of an input of the second form
otherOnBlur(name) ==
    /\ other' = [other EXCEPT
                    !.touchedFields[name] = TRUE,
                    !.errors[name] =
                        otherValidatedError(name, other.values, TRUE),
                    !.lastEvent = Event("onBlur", name, "-")]
    /\ UNCHANGED <<formVars, probe, userListVars>>

\* the end of handleSubmit of the second form, on every path
otherFinish(s, ok) ==
    [s EXCEPT !.isSubmitted = TRUE,
              !.isSubmitting = FALSE,
              !.isSubmitSuccessful = (s.errors = NoErrors /\ ok),
              !.submitCount = @ + 1]

\* a submit that one flag shared by both forms locks
otherHandleSubmitSharedFlag ==
    /\ other.submitCount + Cardinality(other.pending) < MaxTwoSubmits
    /\ LET result == zodResolver(other.values)
           s1 == [other EXCEPT !.errors = result.errors,
                               !.concurrent = isSubmitting]
       IN  IF isSubmitting
           THEN other' = [other EXCEPT
                             !.concurrent = TRUE,
                             !.lastEvent = Event("handleSubmit", "-",
                                                 "already submitting")]
           ELSE IF shouldInvoke(result.errors)
           THEN \E b \in CallbackBehaviours :
                   LET s2 == [s1 EXCEPT
                                 !.calls = Append(@, result.values),
                                 !.lastEvent = Event("handleSubmit", "-", b)]
                   IN  other' =
                          IF b = "pending"
                          THEN [s2 EXCEPT
                                   !.pending = @ \cup {Len(other.calls) + 1},
                                   !.isSubmitting = TRUE]
                          ELSE otherFinish(s2, b = "returned")
           ELSE other' = otherFinish(
                            [s1 EXCEPT !.lastEvent =
                                Event("handleSubmit", "-", "invalid")], TRUE)
    /\ UNCHANGED <<formVars, probe, userListVars>>

\* the submit event of the second form, up to the promise of its callback
otherHandleSubmit ==
    /\ other.submitCount + Cardinality(other.pending) < MaxTwoSubmits
    /\ LET result == zodResolver(other.values)
           s1 == [other EXCEPT !.errors = result.errors,
                               !.concurrent = isSubmitting]
       IN  IF shouldInvoke(result.errors)
           THEN \E b \in CallbackBehaviours :
                   LET s2 == [s1 EXCEPT
                                 !.calls = Append(@, result.values),
                                 !.lastEvent = Event("handleSubmit", "-", b)]
                   IN  other' =
                          IF b = "pending"
                          THEN [s2 EXCEPT
                                   !.pending = @ \cup {Len(other.calls) + 1},
                                   !.isSubmitting = TRUE]
                          ELSE otherFinish(s2, b = "returned")
           ELSE other' = otherFinish(
                            [s1 EXCEPT !.lastEvent =
                                Event("handleSubmit", "-", "invalid")], TRUE)
    /\ UNCHANGED <<formVars, probe, userListVars>>

\* the promise of the i-th call of the second form's callback settles
otherSettle(i, outcome) ==
    /\ i \in other.pending
    /\ other' = otherFinish(
                   [other EXCEPT !.pending = @ \ {i},
                                 !.lastEvent = Event("settle", "-", outcome)],
                   outcome = "resolved")
    /\ UNCHANGED <<formVars, probe, userListVars>>

\* the submit event of the first form, within the bound of two forms
firstHandleSubmit ==
    /\ submitCount + Cardinality(pending) < MaxTwoSubmits
    /\ handleSubmit

TwoSessionsNext ==
    \/ \E name \in Fields : \E v \in TwoInputs(name) : onChange(name, v)
    \/ \E name \in Fields : onBlur(name)
    \/ firstHandleSubmit
    \/ \E i \in 1..MaxTwoSubmits : \E outcome \in {"resolved", "rejected"} :
          settle(i, outcome)
    \/ \E name \in Fields : \E v \in TwoInputs(name) : otherOnChange(name, v)
    \/ \E name \in Fields : otherOnBlur(name)
    \/ otherHandleSubmit
    \/ \E i \in 1..MaxTwoSubmits : \E outcome \in {"resolved", "rejected"} :
          otherSettle(i, outcome)

TwoSessionsSpec == Init /\ [][TwoSessionsNext]_vars

-----------------------------------------------------------------------------
(* The claims *)

\* every field of the schema passes its rule
AllValid(vs) == isEmail(vs["email"]) /\ Len(vs["password"]) >= MinLength

\* the value set of a session as the callback receives it
ValueSet(vs) == [email |-> vs["email"], password |-> vs["password"]]

\* C1: at most one invocation of the injected submit callback is in flight
\* at any time; a submit attempt made while one is pending invokes nothing.
C1_AtMostOneSubmission == Cardinality(pending) <= 1

\* C2: an attemptSubmit made while submitting is false invokes the callback
\* only if every field passes validation against the current values; if a
\* field is invalid the outcome is validation-failed, submitting stays false
\* and the callback is not invoked.
C2_SubmitGating ==
    [][(handleSubmit /\ ~isSubmitting) =>
          /\ calls' # calls => AllValid(values)
          /\ ~AllValid(values) =>
                /\ calls' = calls
                /\ pending' = pending
                /\ ~isSubmitting'
                /\ lastEvent' = Event("handleSubmit", "-", "invalid")]_vars

\* C2 witness: the email is valid, the password is still empty, and the
\* attempt ended validation-failed with no callback invoked.
C2_Witness ==
    /\ lastEvent = Event("handleSubmit", "-", "invalid")
    /\ isEmail(values["email"])
    /\ values["password"] = EmptyString
    /\ calls = << >>
    /\ ~isSubmitting

\* C3: with all fields valid and no submission in flight, one attemptSubmit
\* invokes the callback exactly once, with the value set {email, password}
\* of the field values at the moment of the attempt.
C3_ValidSubmit ==
    [][(handleSubmit /\ AllValid(values) /\ pending = {}) =>
          /\ Len(calls') = Len(calls) + 1
          /\ SubSeq(calls', 1, Len(calls)) = calls
          /\ calls'[Len(calls')] = ValueSet(values)]_vars

\* C3 witness: the first attempt of a session filled with a valid email and
\* password123 invoked the callback once with these two values.
C3_Witness ==
    /\ lastEvent.op = "handleSubmit"
    /\ lastEvent.outcome \in CallbackBehaviours
    /\ calls = <<[email |-> UserEmail, password |-> Password123]>>
    /\ ValueSet(values) = calls[1]

\* C4: submitting is true if and only if an invocation of the injected
\* callback has started and has not yet completed.
C4_SubmittingIffInFlight == isSubmitting <=> pending # {}

\* the outcomes with which an invocation of the callback has completed
Settled == {"returned", "threw", "resolved", "rejected"}

\* C5: on every way the injected callback settles (return, resolve, reject,
\* throw) submitting is false again in the state read after it; with no
\* callback left in flight the session is never stuck in submitting.
C5_GuaranteedRelease ==
    /\ lastEvent.outcome \in Settled => ~isSubmitting
    /\ pending = {} => ~isSubmitting

\* C5 witness: the only callback in flight rejected and the flag is released.
C5_Witness ==
    /\ lastEvent = Event("settle", "-", "rejected")
    /\ pending = {}
    /\ Len(calls) = 1
    /\ ~isSubmitting

\* C6: when the injected callback rejects or throws, the failure is reported
\* (the handler ends rejected, the submit is not successful) and every
\* field's value, touched flag and error are as they were before.
C6_FailureSurfaced ==
    [][(\/ \E i \in 1..MaxSubmits : settle(i, "rejected")
        \/ handleSubmit /\ lastEvent' = Event("handleSubmit", "-", "threw")) =>
          /\ values' = values
          /\ touchedFields' = touchedFields
          /\ errors' = errors
          /\ lastEvent'.outcome \in {"rejected", "threw"}
          /\ ~isSubmitSuccessful']_vars

\* C6 witness: a callback rejected in a session whose email was blurred and
\* whose password was changed while the callback was in flight.
C6_Witness ==
    /\ lastEvent = Event("settle", "-", "rejected")
    /\ touchedFields["email"]
    /\ errors["password"] = PasswordMessage
    /\ ~isSubmitSuccessful

\* a submit attempt has occurred
SubmitAttempted == isSubmitted \/ calls # << >>

\* C7: a field displays an error only if it was touched (changed or
\* blurred) or a submit attempt has occurred; nothing is displayed in the
\* initial state; after a blur or a change of a field whose value fails its
\* rule, that field's error is displayed.
C7_TouchedGating ==
    /\ \A f \in Fields :
          errors[f] # NoError => touchedFields[f] \/ changed[f] \/ SubmitAttempted
    /\ lastEvent.op = "mount" => errors = NoErrors
    /\ \A f \in Fields :
          (lastEvent.op \in {"onBlur", "onChange"} /\ lastEvent.name = f
             /\ ~check(f, values[f]))
          => errors[f] = message(f)

\* C8 as claimed: after an attemptSubmit every field is touched and every
\* field that fails validation displays its error.
C8_AllTouchedAfterSubmit ==
    lastEvent.op = "handleSubmit" =>
        \A f \in Fields :
            /\ touchedFields[f]
            /\ ~check(f, values[f]) => errors[f] = message(f)

\* C8 amended: an attemptSubmit leaves every touched flag as it was, and
\* after it every field that fails validation displays its error, whether or
\* not the field was ever changed or blurred.
C8_AllErrorsVisible ==
    [][handleSubmit =>
          /\ touchedFields' = touchedFields
          /\ \A f \in Fields :
                errors'[f] = IF f = "email"
                             THEN IF isEmail(values'[f]) THEN NoError
                                  ELSE EmailMessage
                             ELSE IF Len(values'[f]) >= MinLength THEN NoError
                                  ELSE PasswordMessage]_vars

\* C8 witness: only the email was typed; after the attempt the password,
\* never changed and never blurred, displays its error.
C8_Witness ==
    /\ lastEvent = Event("handleSubmit", "-", "invalid")
    /\ values["email"] = UserEmail
    /\ ~changed["password"] /\ ~touchedFields["password"]
    /\ errors["password"] = PasswordMessage
    /\ errors["email"] = NoError

\* C9: once a field's error is visible, a change of that field to a value
\* that passes its rule clears the error in the state read right after the
\* change, with no blur and no submit attempt in between.
C9_ErrorClearing ==
    [][\A f \in Fields : \A v \in Inputs(f) :
          (onChange(f, v) /\ errors[f] # NoError
             /\ (IF f = "email" THEN isEmail(v) ELSE Len(v) >= MinLength))
          => errors'[f] = NoError]_vars

\* C9 witness: the visible error of the blurred email was cleared by the
\* change to a valid address, before any submit attempt.
C9_Witness ==
    /\ lastEvent = Event("onChange", "email", "cleared")
    /\ values["email"] = UserEmail
    /\ touchedFields["email"]
    /\ ~SubmitAttempted

\* C10: after a change and then a blur of a field, the email carries the
\* format message exactly when its value is not email-shaped, the password
\* carries the minimum-length message exactly when its value has fewer than
\* 8 characters, and a field never changed carries no error from it.
C10_PerFieldMessages ==
    \A f \in Fields :
        (lastEvent = Event("onBlur", f, "-") /\ changed[f]) =>
            /\ f = "email" =>
                  errors[f] = IF isEmail(values[f]) THEN NoError
                              ELSE EmailMessage
            /\ f = "password" =>
                  errors[f] = IF Len(values[f]) < MinLength THEN PasswordMessage
                              ELSE NoError
            /\ \A g \in Fields \ {f} :
                  (~changed[g] /\ ~SubmitAttempted) => errors[g] = NoError

\* C10 witness: a password of exactly 8 characters was typed and blurred and
\* carries no error, while the invalid email typed before carries its own.
C10_Witness ==
    /\ lastEvent = Event("onBlur", "password", "-")
    /\ values["password"] = Exact8
    /\ errors["password"] = NoError
    /\ values["email"] = InvalidEmail
    /\ errors["email"] = EmailMessage
    /\ ~SubmitAttempted

\* C10 second case: a password of 7 characters, typed and blurred, carries
\* the minimum-length message and the untouched email carries none.
C10_WitnessShort ==
    /\ lastEvent = Event("onBlur", "password", "-")
    /\ values["password"] = Short7
    /\ errors["password"] = PasswordMessage
    /\ ~changed["email"]
    /\ errors["email"] = NoError

\* C11: for every field and every value, the message reported is the one
\* of the first rule, in the order the schema declares them (the string
\* type, then the format or the minimum), that the value fails, even if a
\* later rule fails too; no message is reported if and only if the value
\* passes every rule; one message at most is reported for a field.
C11_FirstFailureWins ==
    LET email == probe.values["email"]
        password == probe.values["password"]
        reported == probe.result.errors
    IN  /\ reported["email"] =
              IF email = Undefined THEN EmailMessage
              ELSE IF ~isEmail(email) THEN EmailMessage
              ELSE NoError
        /\ reported["password"] =
              IF password = Undefined THEN TypeMessage
              ELSE IF Len(password) < MinLength THEN PasswordMessage
              ELSE NoError
        /\ \A f \in Fields :
              reported[f] = NoError <=>
                  \A i \in 1..Len(rules(f)) : passes(rules(f)[i], probe.values[f])

\* C11 witness: the password is no string, so it fails the type rule and
\* the minimum after it, and the message is the one of the type rule.
C11_Witness ==
    /\ probe.values["password"] = Undefined
    /\ ~minLength(probe.values["password"])
    /\ probe.result.errors["password"] = TypeMessage
    /\ probe.values["email"] = QuoteEmail
    /\ probe.result.errors["email"] = NoError

\* C14: in every state the login button is present, it is disabled while a
\* submit callback is in flight (submitting is true) and enabled otherwise.
C14_DisabledWhileSubmitting ==
    /\ submitButton.present
    /\ submitButton.disabled <=> isSubmitting

\* C15: a UserList is loading from its mount until fetchUsers has run to
\* its end (fetch and the reading of the body, on the ok, not-ok, network
\* error and parse failure paths alike) and shows three skeletons, no user
\* and no error while it is; loading never goes back to true; a request
\* that is never answered leaves the component loading for ever.
C15_LoadingLifecycle ==
    /\ [](\A c \in Components :
             /\ loading[c] <=> pc[c] # "done"
             /\ (pc[c] # "unmounted" /\ loading[c]) =>
                   /\ render(c).kind = "skeletons"
                   /\ render(c).count = 3
                   /\ render(c).cards = << >>
                   /\ render(c).text = Null
                   /\ users[c] = << >>
                   /\ error[c] = Null)
    /\ [][\A c \in Components :
             /\ ~loading[c] => ~loading'[c]
             /\ (loading[c] /\ ~loading'[c]) =>
                   pc[c] \in {"awaiting", "parsing"} /\ pc'[c] = "done"
             /\ response[c].type = "never" =>
                   /\ response'[c].type = "never"
                   /\ pc'[c] = "awaiting"
                   /\ loading'[c]]_vars

\* C15 witness: one component ended on the parse failure path and is no
\* longer loading, the other waits for an answer that never comes.
C15_Witness ==
    /\ pc[1] = "done"
    /\ response[1] = EmptyResponse(200)
    /\ error[1] = ParseErrorMessage
    /\ ~loading[1]
    /\ pc[2] = "awaiting"
    /\ response[2].type = "never"
    /\ loading[2]

\* C16: after a response with status 500, 404 or 503 the component has
\* error 'Failed to fetch users', is not loading, has no users and renders
\* the error banner; error and users are never both set, and a finished
\* fetchUsers has either the records of the response or an error.
C16_ErrorOutcome ==
    \A c \in Components :
        /\ (/\ pc[c] = "done"
            /\ response[c].type = "basic"
            /\ response[c].status \in {500, 404, 503}) =>
               /\ error[c] = FailedMessage
               /\ ~loading[c]
               /\ users[c] = << >>
               /\ render(c).kind = "error"
               /\ render(c).text = FailedMessage
               /\ render(c).cards = << >>
        /\ ~(error[c] # Null /\ users[c] # << >>)
        /\ pc[c] = "done" =>
               IF error[c] = Null
               THEN response[c].hasJson /\ users[c] = response[c].data
               ELSE users[c] = << >>

\* C16 witness: the first request to conditionalResponse was answered with
\* 503 and its component shows the error, the second one got the records.
C16_Witness ==
    /\ requestCount = 2
    /\ pc[1] = "done"
    /\ response[1] = EmptyResponse(503)
    /\ error[1] = FailedMessage
    /\ render(1).kind = "error"
    /\ pc[2] = "done"
    /\ users[2] = mswMockUsers
    /\ error[2] = Null

\* C17: a UserList whose fetch succeeded with an empty array renders a
\* 'no data' message, which is neither the skeletons, nor the error banner,
\* nor a list of cards.
C17_NoDataMessage ==
    \A c \in Components :
        (/\ pc[c] = "done"
         /\ response[c] = JsonResponse(<< >>)) =>
            /\ render(c).kind \notin {"skeletons", "error", "cards"}

\* C19: an attemptSubmit made while submitting is true is a no-op: it ends
\* with an 'already submitting' signal, invokes no callback and leaves the
\* fields, the submitting flag and submitCount as they were.
C19_NoOpWhileSubmitting ==
    [][(handleSubmit /\ isSubmitting) =>
          /\ lastEvent' = Event("handleSubmit", "-", "already submitting")
          /\ calls' = calls
          /\ UNCHANGED <<values, touchedFields, errors, isSubmitting,
                         submitCount>>]_vars

\* C20: a change or a blur of a field while a submission is in flight
\* updates the field as usual, leaves submitting true and does not change
\* the value set the callback in flight was given; the next submit attempt
\* validates and submits the values as they are then.
C20_MutationsWhileSubmitting ==
    [][/\ \A f \in Fields : \A v \in Inputs(f) :
             (onChange(f, v) /\ isSubmitting) =>
                 /\ values'[f] = v
                 /\ errors'[f] = (IF check(f, v) THEN NoError ELSE message(f))
                 /\ isSubmitting' /\ calls' = calls /\ pending' = pending
       /\ \A f \in Fields :
             (onBlur(f) /\ isSubmitting) =>
                 /\ touchedFields'[f] /\ values' = values
                 /\ isSubmitting' /\ calls' = calls /\ pending' = pending
       /\ (handleSubmit /\ AllValid(values)) =>
             /\ Len(calls') = Len(calls) + 1
             /\ SubSeq(calls', 1, Len(calls)) = calls
             /\ calls'[Len(calls')] = ValueSet(values)]_vars

\* C20 witness: the password was changed while the callback was in flight;
\* submitting is still true and the call keeps the password it was given.
C20_Witness ==
    /\ lastEvent = Event("onChange", "password", "kept")
    /\ isSubmitting
    /\ pending = {1}
    /\ calls[1]["password"] = Password123
    /\ values["password"] = Exact8

\* C21: a blur of a field marks it touched, changes no value, neither
\* submitting nor submitCount, invokes no callback, and the error the field
\* shows afterwards is the one the schema computes from the current values.
C21_BlurFrame ==
    [][\A f \in Fields :
          onBlur(f) =>
              /\ touchedFields'[f]
              /\ values' = values
              /\ isSubmitting' = isSubmitting
              /\ submitCount' = submitCount
              /\ calls' = calls /\ pending' = pending
              /\ errors'[f] = zodResolver(values).errors[f]]_vars

evaluated(f) == changed[f] \/ isSubmitted \/ calls # << >>

\* getFieldState: invalid is the presence of an error of the field
validity(f) ==
    IF errors[f] # NoError THEN "invalid"
    ELSE IF evaluated(f) THEN "valid"
    ELSE "not-yet-evaluated"

\* an aggregate that looks at the stored errors only
isValidFromErrors == errors = NoErrors

\* formState.isValid: the resolver reports no error for the current values
isValid == zodResolver(values).errors = NoErrors

\* C23: in every state, the fresh session included, each field has an error
\* exactly if its current value fails the schema, and the error is the one
\* the schema computes from the current values.
C23_ErrorIffInvalid ==
    \A f \in Fields : errors[f] = zodResolver(values).errors[f]

\* C23 as the code has it: an error that is present is the one the schema
\* computes from the current values, and a field that was changed, or any
\* field after a submit, has an error exactly if its current value fails;
\* a field not validated yet has no error although its initial value fails.
C23_ErrorOnceEvaluated ==
    \A f \in Fields :
        /\ errors[f] # NoError => errors[f] = zodResolver(values).errors[f]
        /\ evaluated(f) =>
              /\ errors[f] = zodResolver(values).errors[f]
              /\ errors[f] # NoError <=> ~check(f, values[f])
        /\ ~evaluated(f) => errors[f] = NoError /\ ~check(f, values[f])

\* C23 witness: the email was changed to a value that fails and shows its
\* message; the password was never validated, is empty and shows none.
C23_Witness ==
    /\ lastEvent = Event("onChange", "email", "raised")
    /\ values["email"] = InvalidEmail
    /\ errors["email"] = EmailMessage
    /\ ~evaluated("password")
    /\ values["password"] = EmptyString
    /\ errors["password"] = NoError

C24_WitnessNotEvaluated ==
    /\ validity("email") = "valid"
    /\ validity("password") = "not-yet-evaluated"
    /\ ~isValid

\* C25: a change of one field updates the error of every field of the
\* schema to what the schema computes from the new value set, and leaves
\* the other field's value and touched flag alone.
C25_ChangeValidatesAllFields ==
    [][\A f \in Fields : \A v \in Inputs(f) :
          onChange(f, v) =>
              /\ errors' = zodResolver(values').errors
              /\ \A g \in Fields \ {f} :
                    /\ values'[g] = values[g]
                    /\ touchedFields'[g] = touchedFields[g]]_vars

\* C25 as the code has it: a change hands the whole value set to the
\* schema but writes the error of the changed field only; the other
\* field's error, value and touched flag are as before, also when its
\* value fails the schema; a submit writes the errors of all fields.
C25_ChangeValidatesOwnField ==
    [][/\ \A f \in Fields : \A v \in Inputs(f) :
             onChange(f, v) =>
                 /\ errors'[f] = zodResolver(values').errors[f]
                 /\ \A g \in Fields \ {f} :
                       /\ errors'[g] = errors[g]
                       /\ values'[g] = values[g]
                       /\ touchedFields'[g] = touchedFields[g]
       /\ handleSubmit => errors' = zodResolver(values).errors]_vars

\* C25 witness: the email alone was changed, to a valid address; the empty
\* password fails the schema and still has no error.
C25_Witness ==
    /\ lastEvent = Event("onChange", "email", "kept")
    /\ values["email"] = UserEmail
    /\ values["password"] = EmptyString
    /\ ~changed["password"]
    /\ errors["password"] = NoError
    /\ zodResolver(values).errors["password"] = PasswordMessage

\* C26: the empty string is validated like any other value: a submit with
\* an empty email reports the format violation, with an empty password the
\* minimum-length violation, whatever the touched flags are; a submit of the
\* fresh session fails for both fields and invokes no callback.
C26_EmptyStringValidated ==
    /\ [](/\ zodResolver(defaultValues).errors["email"] = EmailMessage
          /\ zodResolver(defaultValues).errors["password"] = PasswordMessage)
    /\ [][handleSubmit =>
             /\ \A f \in Fields :
                   values[f] = EmptyString => errors'[f] = message(f)
             /\ (\E f \in Fields : values[f] = EmptyString) =>
                   /\ calls' = calls
                   /\ lastEvent' = Event("handleSubmit", "-", "invalid")]_vars

\* C26 witness: the fresh session was submitted; both fields carry their
\* message, no field is touched and no callback was invoked.
C26_Witness ==
    /\ lastEvent = Event("handleSubmit", "-", "invalid")
    /\ values = defaultValues
    /\ \A f \in Fields : ~touchedFields[f] /\ ~changed[f]
    /\ errors = [email |-> EmailMessage, password |-> PasswordMessage]
    /\ calls = << >>
    /\ submitCount = 1

\* C28: of two forms made from the same schema, every change, blur, submit
\* and settlement of one leaves the field states, the submitting flag and
\* the submitCount of the other as they were; a submit of one form whose
\* values are valid invokes its callback also while a submission of the
\* other form is in flight.
C28_SessionIndependence ==
    [][/\ formVars' # formVars => other' = other
       /\ other' # other => formVars' = formVars
       /\ (otherHandleSubmit /\ isSubmitting /\ AllValid(other.values)) =>
             /\ Len(other.calls') = Len(other.calls) + 1
             /\ other.lastEvent'.outcome \in CallbackBehaviours
       /\ (firstHandleSubmit /\ other.isSubmitting /\ AllValid(values)) =>
             /\ Len(calls') = Len(calls) + 1
             /\ lastEvent'.outcome \in CallbackBehaviours]_vars

\* C28 witness: the first form has a submission in flight; the second form
\* was submitted meanwhile, its callback was invoked and returned, and the
\* first form is as its own submit left it.
C28_Witness ==
    /\ isSubmitting /\ pending = {1} /\ submitCount = 0
    /\ lastEvent = Event("handleSubmit", "-", "pending")
    /\ other.concurrent
    /\ other.lastEvent = Event("handleSubmit", "-", "returned")
    /\ Len(other.calls) = 1
    /\ other.submitCount = 1
    /\ ~other.isSubmitting

\* C29: of the requests conditionalResponse handles, the first and only the
\* first is answered with status 503 and every later one with 200 and
\* mswMockUsers; its counter counts these requests, only grows, is changed
\* by nothing but the handler itself and is one counter for all components.
C29_ConditionalResponse ==
    /\ [](/\ Len(served) = requestCount
          /\ \A i \in 1..Len(served) :
                served[i] = IF i = 1 THEN EmptyResponse(503)
                            ELSE JsonResponse(mswMockUsers)
          /\ Cardinality({i \in 1..Len(served) : served[i].status = 503}) <= 1)
    /\ [][/\ requestCount' >= requestCount
          /\ requestCount' # requestCount =>
                /\ requestCount' = requestCount + 1
                /\ handler = "conditionalResponse"
                /\ \E c \in Components : respond(c)]_vars

\* C29 witness: two components sent their request to conditionalResponse;
\* the one handled first got 503, the other 200 with mswMockUsers.
C29_Witness ==
    /\ requestCount = 2
    /\ served = <<EmptyResponse(503), JsonResponse(mswMockUsers)>>
    /\ response[2] = EmptyResponse(503)
    /\ response[1] = JsonResponse(mswMockUsers)
    /\ handler # "conditionalResponse"

\* C30: a UserList calls fetch once per mount; after fetchUsers has ended
\* its request is not sent again and its users, error and loading stay as
\* they are, so a component whose request failed stays in the error state;
\* after the mount its state changes at most once.
C30_SingleFetch ==
    /\ [](\A c \in Components :
             /\ fetches[c] = IF pc[c] = "unmounted" THEN 0 ELSE 1
             /\ (pc[c] = "done" /\ response[c].type = "basic"
                   /\ ~responseOk(response[c].status)) =>
                      render(c).kind = "error")
    /\ [][\A c \in Components :
             /\ pc[c] = "done" =>
                   /\ pc'[c] = "done"
                   /\ response'[c] = response[c]
                   /\ users'[c] = users[c]
                   /\ error'[c] = error[c]
                   /\ loading'[c] = loading[c]
             /\ (pc[c] # "unmounted" /\
                 <<users'[c], error'[c], loading'[c]>> #
                     <<users[c], error[c], loading[c]>>) => pc'[c] = "done"
             /\ response'[c] # response[c] => pc[c] = "requested"]_vars

\* C30 witness: the component got the one 503 of conditionalResponse and
\* shows the error, while the handler has since answered 200 to the other.
C30_Witness ==
    /\ handler = "conditionalResponse"
    /\ served = <<EmptyResponse(503), JsonResponse(mswMockUsers)>>
    /\ pc[1] = "done"
    /\ response[1] = EmptyResponse(503)
    /\ error[1] = FailedMessage
    /\ fetches[1] = 1
    /\ pc[2] = "done"
    /\ users[2] = mswMockUsers

====
